---- MODULE Spec2Model ----
(***************************************************************************)
(* Model of the chunked, resumable, concurrent upload pipeline of          *)
(* pkg/services/upload.go (UploadService) and of the counters of           *)
(* pkg/pb Progress that it updates.                                        *)
(*                                                                         *)
(* Every goroutine of the program is a process of the model: the caller of *)
(* UploadFile (the orchestrator), the joiner goroutine (wg.Wait; close),   *)
(* one goroutine per part, the directory walker and one goroutine per      *)
(* dispatched file.  A step of the model is a block of code between two    *)
(* blocking operations (channel operation, WaitGroup wait, network call);  *)
(* an unsynchronised write of a variable shared between goroutines         *)
(* (partName, Progress.Bars) is a step apart from the read before or after *)
(* it.                                                                     *)
(***************************************************************************)
EXTENDS Integers, Sequences, FiniteSets, TLC

\* ------------------------------------------------------------------ bounds
\* Largest local file size (bytes) of a file given to UploadFile.
MaxFileSize == 5
\* Largest number of POST /api/files requests the pacer sends for one commit.
MaxTries == 2
\* Largest file size and part size of the part planner's inputs.
MaxPlanSize == 9
\* Largest TotalPages a directory listing's first page reports.
MaxPages == 10

\* ---------------------------------------------------- service configuration
\* NewUploadService(numWorkers, numTransfers, partSize, ..., deleteAfterUpload)
numTransfers == 2
ConfiguredPartSize == 2
\* numWorkers of a direct UploadFile call and of a directory walk
SingleWorkers == 2
WalkWorkers == 1
deleteAfterUpload == TRUE
\* u.channelID and u.encryptFiles
ConfiguredChannelID == 1
encryptFiles == FALSE
\* u.randomisePart
randomisePart == FALSE

\* The files known to the model; file 1 is the one a direct UploadFile call
\* is given, all of them are entries of the walked tree.
Files == 1..3

\* The local directories a walk can be given: directory 0 holds two files
\* and the subdirectory 1 between them, directory 2 holds two files,
\* directory 3 the empty subdirectory 4 and a file.
Dirs == 0..4
FileEntry(f) == [kind |-> "file", id |-> f]
DirEntry(d) == [kind |-> "dir", id |-> d]
Entries(d) ==
    CASE d = 0 -> <<FileEntry(1), DirEntry(1), FileEntry(2)>>
      [] d = 1 -> <<FileEntry(3)>>
      [] d = 2 -> <<FileEntry(1), FileEntry(2)>>
      [] d = 3 -> <<DirEntry(4), FileEntry(3)>>
      [] d = 4 -> <<>>
FilesOf(d) == { e.id : e \in { Entries(d)[k] : k \in DOMAIN Entries(d) } \cap
                               { FileEntry(f) : f \in Files } }

VARIABLES
    partSize,          \* u.partSize
    numWorkers,        \* u.numWorkers
    cancelled,         \* u.ctx is done
    fileSize,          \* [file -> size of the local file]
    fpc,               \* [file -> position of its UploadFile call]
    result,            \* [file -> what UploadFile returned]
    existingParts,     \* [file -> map partNo -> PartFile of the resumed session]
    uploadFile,        \* [file -> the head of uploadFile.Parts as decoded from the
                       \*  session lookup: <<>> or <<its ChannelID and Encrypted>>]
    i,                 \* [file -> dispatch loop index]
    wg,                \* [file -> counter of the local sync.WaitGroup]
    joiner,            \* [file -> position of the goroutine of lines 211-215]
    uploadedParts,     \* [file -> contents of the buffered results channel]
    closed,            \* [file -> results channel closed]
    concurrentWorkers, \* [file -> occupied slots of the channel of line 199]
    partName,          \* [file -> the variable partName of line 217, which all
                       \*  part goroutines of the file write and read]
    task,              \* [file -> [part index (1-based) -> position of its goroutine]]
    ranges,            \* [file -> sequence of <<start, end>> given to the part goroutines]
    parts,             \* [file -> the parts list collected by the drain loop]
    manifest,          \* [file -> the Parts of the FilePayload built (312-321), <<>> before]
    calls,             \* [file -> counters of the network requests issued]
    progress,          \* Progress.state: existing, existingBytes
    bars,              \* len(Progress.Bars)
    barsSeen,          \* [file -> len of the p.Bars its AddBar call has read
                       \*  (part_000:83), 0 outside the call]
    crashed,           \* "no", "fatal" (logger.Fatal: os.Exit) or "panic"
    source,            \* sourcePath given to the outermost UploadFilesInDirectory
    walk,              \* call stack of UploadFilesInDirectory, innermost call last
    walked,            \* [directory -> "none", "listed", or what its walk returned:
                       \*  "list_err" (476, 484), "err" (534) or "nil" (542)]
    visited,           \* entries <<directory, index>> the loop of 487 has taken up
    concurrentFiles,   \* occupied slots of u.concurrentFiles
    uwg,               \* counter of u.wg
    ftask,             \* [file -> position of the goroutine of 509-529]
    removed,           \* [file -> the local file was removed (522)]
    pages              \* the list call (414-461) in progress or last made: pc,
                       \* total (info.Meta.TotalPages), i (the loop variable of
                       \* 437), g (the goroutines of the errgroup, by page) and
                       \* files (how often each page's files were appended)

walkVars == <<source, walk, walked, visited, concurrentFiles, uwg, ftask, removed>>

vars == <<partSize, numWorkers, cancelled, uploadFile, partName, bars, barsSeen, fileSize, fpc, result, existingParts, i, wg, joiner,
          uploadedParts, closed, concurrentWorkers, task, ranges, parts,
          manifest, calls, progress, crashed, walkVars, pages>>

\* ------------------------------------------------------------ part planner
\* upload.go:193-196
TotalParts(size, psize) ==
    IF size % psize # 0 THEN size \div psize + 1 ELSE size \div psize

\* upload.go:220
PartStart(idx, psize) == idx * psize

\* PartEnd without the clamp of 222-224
PartEndUnclamped(idx, size, psize) == PartStart(idx, psize) + psize

\* upload.go:221-224
PartEnd(idx, size, psize) ==
    IF PartStart(idx, psize) + psize > size THEN size
    ELSE PartStart(idx, psize) + psize

totalParts(f) == TotalParts(fileSize[f], partSize)

\* ------------------------------------------------------------- part records
\* types.PartFile as the model needs it: PartNo, PartId, Size.
PartFile(no, id, size) == [PartNo |-> no, PartId |-> id, Size |-> size]

\* The record the remote API keeps for part no of a session (resume path), and
\* the one it returns with a 201; id 0 is a record without a remote part.
ExistingId(no) == 10 + no
FreshId(no) == 20 + no

\* The drain loop without its filter
AdmittedAll(rec) == TRUE

\* upload.go:296: the filter of the drain loop
Admitted(rec) == rec.PartId # 0 /\ rec.Size # 0

\* upload.go:297
FilePart(rec) == [ID |-> rec.PartId, PartNo |-> rec.PartNo]

\* upload.go:308-310: sort.Slice(parts, PartNo ascending), as an insertion sort
RECURSIVE Insert(_, _)
Insert(x, s) ==
    IF s = <<>> THEN <<x>>
    ELSE IF x.PartNo < Head(s).PartNo THEN <<x>> \o s
    ELSE <<Head(s)>> \o Insert(x, Tail(s))

RECURSIVE SortByPartNo(_)
SortByPartNo(s) ==
    IF s = <<>> THEN <<>> ELSE Insert(Head(s), SortByPartNo(Tail(s)))

\* ---------------------------------------------------------------- part names
\* A name is the file's name and a suffix: none for fileName itself (217), the
\* digits of the part number for "<fileName>.part.<%03d>" (263), a fresh
\* value for the hex of a UUID (260-261).
Pad3(n) == <<(n \div 100) % 10, (n \div 10) % 10, n % 10>>

FileName(f) == [file |-> f, suffix |-> <<>>]

Sprintf(f, n) == [file |-> f, suffix |-> <<"part">> \o Pad3(n)]

RandomName(f, n) == [file |-> f, suffix |-> <<"uuid", n>>]

\* ------------------------------------------------------------------ helpers
\* The requests of one file seen by the remote API: how many of each kind,
\* whether the session lookup returned an error, the part numbers POSTed and the parameters of these requests, the records
\* returned with a 201, the payloads of the commit requests, and whether the
\* commit call returned without an error.
NoCalls == [exists |-> 0, lookup |-> 0, lookupErr |-> FALSE, post |-> {}, postN |-> 0,
            requests |-> {}, created |-> {}, commit |-> 0, payloads |-> {},
            commitOk |-> FALSE, delete |-> 0]

Running == crashed = "no"

\* upload.go:414-435: the locals of list before its first request; the loop
\* of 437 starts at page 2.
NoPages == [pc |-> "none", total |-> 0, i |-> 2,
            g |-> [pg \in 2..MaxPages |-> "none"],
            files |-> [pg \in 1..MaxPages |-> 0]]

\* What one attempt of a call made under pacer.Call can end with: success, a
\* retryable outcome (a status of retryErrorCodes, 30-37, or a transient
\* transport error), or any other error.  With u.ctx done CallJSON(u.ctx, ...)
\* returns the context's error.
Responses == IF cancelled THEN {"error"} ELSE {"ok", "retryable", "error"}

\* upload.go:72-77: shouldRetry; a context error is never retried
ShouldRetry(resp) == ~cancelled /\ resp = "retryable"

\* ----------------------------------------------------------- initial state
InitFile(sizes, dir) ==
    /\ fileSize \in sizes
    /\ source = dir
    /\ cancelled = FALSE
    /\ fpc = [f \in Files |-> "idle"]
    /\ result = [f \in Files |-> "none"]
    /\ existingParts = [f \in Files |-> <<>>]
    /\ uploadFile = [f \in Files |-> <<>>]
    /\ partName = [f \in Files |-> FileName(f)]
    /\ i = [f \in Files |-> 0]
    /\ wg = [f \in Files |-> 0]
    /\ joiner = [f \in Files |-> "none"]
    /\ uploadedParts = [f \in Files |-> <<>>]
    /\ closed = [f \in Files |-> FALSE]
    /\ concurrentWorkers = [f \in Files |-> 0]
    /\ task = [f \in Files |-> [p \in 1..TotalParts(fileSize[f], partSize) |-> "none"]]
    /\ ranges = [f \in Files |-> <<>>]
    /\ parts = [f \in Files |-> <<>>]
    /\ manifest = [f \in Files |-> <<>>]
    /\ calls = [f \in Files |-> NoCalls]
    /\ progress = [existing |-> 0, existingBytes |-> 0]
    /\ bars = 0
    /\ barsSeen = [f \in Files |-> 0]
    /\ crashed = "no"
    /\ walk = <<>>
    /\ walked = [d \in Dirs |-> "none"]
    /\ visited = {}
    /\ concurrentFiles = 0
    /\ uwg = 0
    /\ ftask = [f \in Files |-> "none"]
    /\ removed = [f \in Files |-> FALSE]
    /\ pages = NoPages

\* ------------------------------------------------------ UploadFile, 110-355
Set(fn, f, v) == [fn EXCEPT ![f] = v]

Count(f, kind) == [calls EXCEPT ![f][kind] = @ + 1]

\* AddExisting counting the file without its bytes
AddExistingCountOnly(size) ==
    [existing |-> progress.existing + 1, existingBytes |-> progress.existingBytes]

\* pb Progress.AddExisting (part_000:96-101)
AddExisting(size) ==
    [existing |-> progress.existing + 1,
     existingBytes |-> progress.existingBytes + size]

\* upload.go:110-149: open, read the first 512 bytes, stat, make the bar and
\* call AddBar, whose append reads p.Bars.  A failed open or read (an empty
\* file reads io.EOF) is logged with logger.Fatal, which exits the process.
UploadFileOpen(f) ==
    /\ Running
    /\ fpc[f] = "open"
    /\ \/ /\ crashed' = "fatal"
          /\ fpc' = Set(fpc, f, "fatal")
          /\ UNCHANGED barsSeen
       \/ /\ fileSize[f] > 0
          /\ fpc' = Set(fpc, f, "addbar")
          /\ barsSeen' = Set(barsSeen, f, bars)
          /\ UNCHANGED crashed
    /\ UNCHANGED <<walkVars, pages, bars, cancelled, uploadFile, partName, partSize,
                   numWorkers, fileSize, result, existingParts, i, wg, joiner,
                   uploadedParts, closed, concurrentWorkers, task, ranges,
                   parts, manifest, calls, progress>>

\* pb Progress.AddBar (part_000:82-84): p.Bars = append(p.Bars, newBar), made
\* without p.lock: the slice read before is stored back with the new bar
AddBar(f) ==
    /\ Running
    /\ fpc[f] = "addbar"
    /\ bars' = barsSeen[f] + 1
    /\ barsSeen' = Set(barsSeen, f, 0)
    /\ fpc' = Set(fpc, f, "check")
    /\ UNCHANGED <<walkVars, pages, cancelled, uploadFile, partName, partSize,
                   numWorkers, fileSize, result, existingParts, i, wg, joiner,
                   uploadedParts, closed, concurrentWorkers, task, ranges,
                   parts, manifest, calls, progress, crashed>>

\* upload.go:151-161 with checkFileExists (79-108)
CheckFileExists(f) ==
    /\ Running
    /\ fpc[f] = "check"
    /\ calls' = Count(f, "exists")
    /\ \/ /\ result' = Set(result, f, "check_err")
          /\ fpc' = Set(fpc, f, "done")
          /\ UNCHANGED progress
       \/ /\ "ok" \in Responses
          /\ progress' = AddExisting(fileSize[f])
          /\ result' = Set(result, f, "exists")
          /\ fpc' = Set(fpc, f, "done")
       \/ /\ "ok" \in Responses
          /\ fpc' = Set(fpc, f, "resolve")
          /\ UNCHANGED <<result, progress>>
    /\ UNCHANGED <<walkVars, pages, bars, barsSeen, cancelled, uploadFile, partName, partSize, numWorkers, fileSize, existingParts, i, wg, joiner,
                   uploadedParts, closed, concurrentWorkers, task, ranges,
                   parts, manifest, crashed>>

\* The records the remote API can hold or return for part no with the id and
\* the size a sound record has: the sound one, one without a remote part
\* (PartId 0) and one without bytes (Size 0).
Unsound(no, id, size) == {PartFile(no, 0, size), PartFile(no, id, 0)}

Records(no, id, size) == {PartFile(no, id, size)} \cup Unsound(no, id, size)

\* What GET /api/uploads/{id} can return for a file of n planned parts: the
\* records of any set of planned part numbers, at most one of them unsound (a
\* record of a number outside the plan is never looked up by the loop).
SessionMaps(n) ==
    UNION { { [no \in S |-> IF no = z THEN bad
                            ELSE PartFile(no, ExistingId(no), partSize)] :
                S \in SUBSET (1..n),
                bad \in Unsound(z, ExistingId(z), partSize) } :
            z \in 0..n }

\* The lookup attempted also for a file of exactly one part size
LookupAttemptedLoose(f) == partSize <= fileSize[f]

\* upload.go:173: the session lookup is attempted
LookupAttempted(f) == partSize < fileSize[f]

\* The position after the dispatch loop's condition (219) at index idx.
LoopAt(f, idx) == IF idx < totalParts(f) THEN "dispatch" ELSE "drain"

\* The ChannelID and Encrypted a record of a remote session can carry: those
\* configured now, or those of a run configured otherwise.
SessionSettings ==
    { [ChannelID |-> ConfiguredChannelID, Encrypted |-> encryptFiles],
      [ChannelID |-> ConfiguredChannelID + 1, Encrypted |-> ~encryptFiles] }

\* Any record of a non-empty response can be the first of uploadFile.Parts.
SessionHeads(m) == IF DOMAIN m = {} THEN {<<>>} ELSE { <<st>> : st \in SessionSettings }

\* upload.go:163-217: session lookup, make the channels, start the joiner
SessionResolve(f) ==
    /\ Running
    /\ fpc[f] = "resolve"
    /\ IF LookupAttempted(f)
       THEN /\ \/ /\ calls' = [calls EXCEPT ![f].lookup = @ + 1,
                                                ![f].lookupErr = TRUE]
                  /\ UNCHANGED <<existingParts, uploadFile>>
               \/ /\ "ok" \in Responses
                  /\ calls' = Count(f, "lookup")
                  /\ \E m \in SessionMaps(totalParts(f)) :
                         /\ existingParts' = Set(existingParts, f, m)
                         /\ \E h \in SessionHeads(m) :
                                uploadFile' = Set(uploadFile, f, h)
       ELSE UNCHANGED <<calls, existingParts, uploadFile>>
    /\ joiner' = Set(joiner, f, "wait")
    /\ fpc' = Set(fpc, f, LoopAt(f, 0))
    /\ UNCHANGED <<walkVars, pages, bars, barsSeen, cancelled, partName, partSize, numWorkers, fileSize, result, i,
                   wg, uploadedParts, closed, concurrentWorkers, task, ranges,
                   parts, manifest, progress, crashed>>

\* The locals of 201-203 without the inheritance of 205-209
ChannelDefault(f) == ConfiguredChannelID

\* upload.go:201-209: the locals channelID and encryptFile
channelID(f) ==
    IF Len(uploadFile[f]) > 0 THEN uploadFile[f][1].ChannelID
    ELSE ConfiguredChannelID

encryptFile(f) ==
    IF Len(uploadFile[f]) > 0 THEN uploadFile[f][1].Encrypted
    ELSE encryptFiles

\* upload.go:211-212: wg.Wait() returns when the counter is zero
JoinerWait(f) ==
    /\ Running
    /\ joiner[f] = "wait"
    /\ wg[f] = 0
    /\ joiner' = Set(joiner, f, "close")
    /\ UNCHANGED <<walkVars, pages, bars, barsSeen, cancelled, uploadFile, partName, partSize, numWorkers, fileSize, fpc, result, existingParts, i, wg,
                   uploadedParts, closed, concurrentWorkers, task, ranges,
                   parts, manifest, calls, progress, crashed>>

\* upload.go:213-214: close(uploadedParts); bar.Finish()
JoinerClose(f) ==
    /\ Running
    /\ joiner[f] = "close"
    /\ closed' = Set(closed, f, TRUE)
    /\ joiner' = Set(joiner, f, "done")
    /\ UNCHANGED <<walkVars, pages, bars, barsSeen, cancelled, uploadFile, partName, partSize, numWorkers, fileSize, fpc, result, existingParts, i, wg,
                   uploadedParts, concurrentWorkers, task, ranges, parts,
                   manifest, calls, progress, crashed>>

\* upload.go:219-226: loop condition, start and end of the part, wg.Add(1)
DispatchAdd(f) ==
    /\ Running
    /\ fpc[f] = "dispatch"
    /\ ranges' = Set(ranges, f, Append(ranges[f],
                     <<PartStart(i[f], partSize),
                       PartEnd(i[f], fileSize[f], partSize)>>))
    /\ wg' = Set(wg, f, wg[f] + 1)
    /\ fpc' = Set(fpc, f, "acquire")
    /\ UNCHANGED <<walkVars, pages, bars, barsSeen, cancelled, uploadFile, partName, partSize, numWorkers, fileSize, result, existingParts, i, joiner,
                   uploadedParts, closed, concurrentWorkers, task, parts,
                   manifest, calls, progress, crashed>>

\* The dispatch loop without the slot acquisition of 227
PartSlotAlways(f) == TRUE

\* upload.go:227: concurrentWorkers <- struct{}{} can proceed
PartSlotFree(f) == concurrentWorkers[f] < numWorkers

\* upload.go:227-229, 291: take a slot, start the part goroutine, i++
DispatchGo(f) ==
    /\ Running
    /\ fpc[f] = "acquire"
    /\ PartSlotFree(f)
    /\ concurrentWorkers' = Set(concurrentWorkers, f, concurrentWorkers[f] + 1)
    /\ task' = [task EXCEPT ![f][i[f] + 1] = "run"]
    /\ i' = Set(i, f, i[f] + 1)
    /\ fpc' = Set(fpc, f, LoopAt(f, i[f] + 1))
    /\ UNCHANGED <<walkVars, pages, bars, barsSeen, cancelled, uploadFile, partName, partSize, numWorkers, fileSize, result, existingParts, wg, joiner,
                   uploadedParts, closed, ranges, parts, manifest, calls,
                   progress, crashed>>

\* upload.go:230-233: the deferred slot release and wg.Done of a part goroutine
TaskExit(f, p, how) ==
    /\ task' = [task EXCEPT ![f][p] = how]
    /\ concurrentWorkers' = Set(concurrentWorkers, f, concurrentWorkers[f] - 1)
    /\ wg' = Set(wg, f, wg[f] - 1)

\* The results channel made one slot short
CapacityShort(f) == totalParts(f) - 1

\* upload.go:198: make(chan types.PartFile, totalParts)
Capacity(f) == totalParts(f)

\* upload.go:242, 288: uploadedParts <- rec; it blocks while the channel is
\* full; a send on a closed channel panics
\* and the panic, not recovered, ends the process.
SendAndExit(f, p, rec) ==
    IF closed[f]
    THEN /\ crashed' = "panic"
         /\ task' = [task EXCEPT ![f][p] = "panic"]
         /\ UNCHANGED <<concurrentWorkers, wg, uploadedParts>>
    ELSE /\ Len(uploadedParts[f]) < Capacity(f)
         /\ uploadedParts' = Set(uploadedParts, f, Append(uploadedParts[f], rec))
         /\ TaskExit(f, p, "sent")
         /\ UNCHANGED crashed

\* upload.go:241: the part is taken from the resumed session
Resumed(f, p) == p \in DOMAIN existingParts[f]

\* upload.go:259-264: the name a part goroutine assigns to partName
NewPartName(f, p) ==
    IF randomisePart THEN RandomName(f, p)
    ELSE IF totalParts(f) > 1 THEN Sprintf(f, p)
    ELSE partName[f]

\* upload.go:235-264: open, resume path, seek, assignment to partName
PartTaskStart(f, p) ==
    /\ Running
    /\ task[f][p] = "run"
    /\ \/ /\ TaskExit(f, p, "failed")             \* os.Open failed (236-239)
          /\ UNCHANGED <<uploadedParts, partName, crashed>>
       \/ /\ Resumed(f, p)
          /\ SendAndExit(f, p, existingParts[f][p])
          /\ UNCHANGED partName
       \/ /\ ~Resumed(f, p)
          /\ \/ /\ TaskExit(f, p, "failed")       \* file.Seek failed (249-252)
                /\ UNCHANGED <<uploadedParts, partName, crashed>>
             \/ /\ task' = [task EXCEPT ![f][p] = "named"]
                /\ partName' = Set(partName, f, NewPartName(f, p))
                /\ UNCHANGED <<uploadedParts, concurrentWorkers, wg, crashed>>
    /\ UNCHANGED <<walkVars, pages, bars, barsSeen, cancelled, uploadFile, partSize, numWorkers,
                   fileSize, fpc, result, existingParts, i, joiner, closed,
                   ranges, parts, manifest, calls, progress>>

\* upload.go:266-278: the Parameters of the part POST; partName is read here
PartRequest(f, p) ==
    [partName |-> partName[f], partNo |-> p,
     channelId |-> channelID(f), encrypted |-> encryptFile(f)]

\* upload.go:266-281: build the request from the variables as they are now
\* and issue the part POST
PartTaskPost(f, p) ==
    /\ Running
    /\ task[f][p] = "named"
    /\ task' = [task EXCEPT ![f][p] = "post"]
    /\ calls' = [calls EXCEPT ![f].post = @ \cup {p},
                              ![f].postN = @ + 1,
                              ![f].requests = @ \cup {PartRequest(f, p)}]
    /\ UNCHANGED <<walkVars, pages, bars, barsSeen, cancelled, uploadFile, partName, partSize,
                   numWorkers, fileSize, fpc, result, existingParts, i, wg,
                   joiner, uploadedParts, closed, concurrentWorkers, ranges,
                   parts, manifest, progress, crashed>>

\* upload.go:256
ContentLength(f, p) == ranges[f][p][2] - ranges[f][p][1]

\* A failed part POST sent again: the goroutine goes back to its start
PostFailedRetry(f, p) ==
    /\ task' = [task EXCEPT ![f][p] = "run"]
    /\ UNCHANGED <<concurrentWorkers, wg>>

\* upload.go:283-286, 287: a transport error returns, a status other than 201
\* falls through to the end of the goroutine; neither sends a record
PostFailed(f, p) == TaskExit(f, p, "failed")

\* upload.go:281-290: the response of the part POST
PartTaskResponse(f, p) ==
    /\ Running
    /\ task[f][p] = "post"
    /\ \/ /\ PostFailed(f, p)
          /\ UNCHANGED <<uploadedParts, calls, crashed>>
       \/ \E rec \in Records(p, FreshId(p), ContentLength(f, p)) :
              /\ calls' = [calls EXCEPT ![f].created = @ \cup {rec}]
              /\ SendAndExit(f, p, rec)
    /\ UNCHANGED <<walkVars, pages, bars, barsSeen, cancelled, uploadFile, partName, partSize, numWorkers, fileSize, fpc, result,
                   existingParts, i, joiner, closed, ranges, parts, manifest,
                   progress>>

\* upload.go:295-299: one iteration of the drain loop
DrainRecv(f) ==
    /\ Running
    /\ fpc[f] = "drain"
    /\ uploadedParts[f] # <<>>
    /\ uploadedParts' = Set(uploadedParts, f, Tail(uploadedParts[f]))
    /\ parts' = Set(parts, f,
                    IF Admitted(Head(uploadedParts[f]))
                    THEN Append(parts[f], FilePart(Head(uploadedParts[f])))
                    ELSE parts[f])
    /\ UNCHANGED <<walkVars, pages, bars, barsSeen, cancelled, uploadFile, partName, partSize, numWorkers, fileSize, fpc, result, existingParts, i, wg,
                   joiner, closed, concurrentWorkers, task, ranges, manifest,
                   calls, progress, crashed>>

\* The completeness check accepting any non-empty parts list
CompleteNonEmpty(f) == Len(parts[f]) > 0

\* upload.go:301: the completeness check
Complete(f) == Len(parts[f]) = totalParts(f)

\* The payload's Parts without the sort of 308-310
PayloadUnsorted(f) == parts[f]

\* upload.go:308-321: the Parts of the payload
PayloadParts(f) == SortByPartNo(parts[f])

\* upload.go:295, 301-327: the range loop ends on the closed, empty channel;
\* completeness check, sort, payload
DrainEnd(f) ==
    /\ Running
    /\ fpc[f] = "drain"
    /\ uploadedParts[f] = <<>>
    /\ closed[f]
    /\ IF Complete(f)
       THEN /\ manifest' = Set(manifest, f, PayloadParts(f))
            /\ fpc' = Set(fpc, f, "commit")
            /\ UNCHANGED result
       ELSE /\ result' = Set(result, f, "incomplete")
            /\ fpc' = Set(fpc, f, "done")
            /\ UNCHANGED manifest
    /\ UNCHANGED <<walkVars, pages, bars, barsSeen, cancelled, uploadFile, partName, partSize, numWorkers, fileSize, existingParts, i,
                   wg, joiner, uploadedParts, closed, concurrentWorkers, task,
                   ranges, parts, calls, progress, crashed>>

\* upload.go:312-321: filePayload
FilePayload(f) ==
    [Parts |-> manifest[f], ChannelID |-> channelID(f), Encrypted |-> encryptFile(f)]

\* The commit's error ignored
CommitFailedNever(resp) == FALSE

\* upload.go:339-341: the commit call returned an error
CommitFailed(resp) == resp # "ok"

\* upload.go:329-341: one attempt of POST /api/files under pacer.Call; when
\* shouldRetry asks for it the pacer sends the request again.
ManifestCommit(f) ==
    /\ Running
    /\ fpc[f] = "commit"
    /\ \E resp \in Responses :
           /\ calls' = [calls EXCEPT ![f].commit = @ + 1,
                                     ![f].payloads = @ \cup {FilePayload(f)},
                                     ![f].commitOk = (resp = "ok")]
           /\ IF ShouldRetry(resp) /\ calls[f].commit + 1 < MaxTries
              THEN UNCHANGED <<fpc, result>>
              ELSE IF CommitFailed(resp)
              THEN /\ result' = Set(result, f, "commit_err")
                   /\ fpc' = Set(fpc, f, "done")
              ELSE /\ fpc' = Set(fpc, f, "delete")
                   /\ UNCHANGED result
    /\ UNCHANGED <<walkVars, pages, bars, barsSeen, cancelled, uploadFile, partName, partSize, numWorkers, fileSize, existingParts, i,
                   wg, joiner, uploadedParts, closed, concurrentWorkers, task,
                   ranges, parts, manifest, progress, crashed>>

\* upload.go:343-354: DELETE /api/uploads/{id}
SessionDelete(f) ==
    /\ Running
    /\ fpc[f] = "delete"
    /\ calls' = Count(f, "delete")
    /\ \E resp \in Responses \ {"retryable"} :
           result' = Set(result, f, IF resp = "ok" THEN "ok" ELSE "delete_err")
    /\ fpc' = Set(fpc, f, "done")
    /\ UNCHANGED <<walkVars, pages, bars, barsSeen, cancelled, uploadFile, partName, partSize, numWorkers, fileSize, existingParts, i, wg, joiner,
                   uploadedParts, closed, concurrentWorkers, task, ranges,
                   parts, manifest, progress, crashed>>

\* ------------------------------------------- a direct call UploadFile(file 1)
SingleFile == 1

SingleSizes ==
    { s \in [Files -> 0..MaxFileSize] : \A f \in Files \ {SingleFile} : s[f] = 1 }

UploadFileCall ==
    /\ Running
    /\ fpc[SingleFile] = "idle"
    /\ fpc' = Set(fpc, SingleFile, "open")
    /\ UNCHANGED <<walkVars, pages, bars, barsSeen, cancelled, uploadFile, partName, partSize, numWorkers, fileSize, result, existingParts, i, wg, joiner,
                   uploadedParts, closed, concurrentWorkers, task, ranges,
                   parts, manifest, calls, progress, crashed>>

Init ==
    /\ partSize = ConfiguredPartSize
    /\ numWorkers = SingleWorkers
    /\ InitFile(SingleSizes, 0)

Next ==
    \/ UploadFileCall
    \/ UploadFileOpen(SingleFile)
    \/ AddBar(SingleFile)
    \/ CheckFileExists(SingleFile)
    \/ SessionResolve(SingleFile)
    \/ JoinerWait(SingleFile)
    \/ JoinerClose(SingleFile)
    \/ DispatchAdd(SingleFile)
    \/ DispatchGo(SingleFile)
    \/ \E p \in DOMAIN task[SingleFile] : PartTaskStart(SingleFile, p)
    \/ \E p \in DOMAIN task[SingleFile] : PartTaskPost(SingleFile, p)
    \/ \E p \in DOMAIN task[SingleFile] : PartTaskResponse(SingleFile, p)
    \/ DrainRecv(SingleFile)
    \/ DrainEnd(SingleFile)
    \/ ManifestCommit(SingleFile)
    \/ SessionDelete(SingleFile)

Spec == Init /\ [][Next]_vars

\* A direct call UploadFile(file 1) under fair scheduling with every network
\* call returning: while some goroutine can take a step, a step is taken.
\* No goroutine of UploadFile loops without bound (the dispatch and drain
\* loops are bounded by totalParts, the pacer by MaxTries), so this is the
\* fairness of each goroutine.
FairSpec == Init /\ [][Next]_vars /\ WF_vars(Next)

\* The context given to NewUploadService is cancelled by its owner.
Cancel ==
    /\ Running
    /\ ~cancelled
    /\ cancelled' = TRUE
    /\ UNCHANGED <<walkVars, pages, bars, barsSeen, uploadFile, partName, partSize, numWorkers, fileSize, fpc,
                   result, existingParts, i, wg, joiner, uploadedParts, closed,
                   concurrentWorkers, task, ranges, parts, manifest, calls,
                   progress, crashed>>

CancelNext == Next \/ Cancel

\* A direct call UploadFile(file 1) whose context can be cancelled at any time.
CancelSpec == Init /\ [][CancelNext]_vars

\* ------------------------------------- UploadFilesInDirectory, 472-543
fileVars == <<pages, partSize, numWorkers, cancelled, uploadFile, partName, bars, barsSeen, fileSize, existingParts, i, wg, joiner, uploadedParts,
              closed, concurrentWorkers, task, ranges, parts, manifest, calls>>

Top == walk[Len(walk)]

SetTop(fr) == [walk EXCEPT ![Len(walk)] = fr]

Pop == SubSeq(walk, 1, Len(walk) - 1)

\* main calls UploadFilesInDirectory on the source directory
WalkCall ==
    /\ Running
    /\ walk = <<>>
    /\ walked[source] = "none"
    /\ walk' = <<[dir |-> source, idx |-> 1, listing |-> {}, phase |-> "list"]>>
    /\ UNCHANGED <<fileVars, fpc, result, progress, crashed, source, walked,
                   visited, concurrentFiles, uwg, ftask, removed>>

\* upload.go:473-485: os.ReadDir and u.list(destDir); either failing returns
\* the error.  The listing holds any set of the directory's file names.
WalkList ==
    /\ Running
    /\ walk # <<>>
    /\ Top.phase = "list"
    /\ \/ /\ walk' = Pop
          /\ walked' = [walked EXCEPT ![Top.dir] = "list_err"]
       \/ \E names \in SUBSET FilesOf(Top.dir) :
              /\ "ok" \in Responses
              /\ walk' = SetTop([Top EXCEPT !.listing = names, !.phase = "loop"])
              /\ walked' = [walked EXCEPT ![Top.dir] = "listed"]
    /\ UNCHANGED <<fileVars, fpc, result, progress, crashed, source, visited,
                   concurrentFiles, uwg, ftask, removed>>

\* The entry the loop of 487 is at.
Entry == Entries(Top.dir)[Top.idx]

AtEntry(kind) ==
    /\ Running
    /\ walk # <<>>
    /\ Top.phase = "loop"
    /\ Top.idx <= Len(Entries(Top.dir))
    /\ Entry.kind = kind

Advance == SetTop([Top EXCEPT !.idx = @ + 1])

\* upload.go:490-502: a subdirectory: CreateRemoteDir, then the recursive
\* call; a failure of either is logged and the loop continues.
WalkSubDir ==
    /\ AtEntry("dir")
    /\ visited' = visited \cup {<<Top.dir, Top.idx>>}
    /\ \/ walk' = Advance
       \/ /\ "ok" \in Responses
          /\ walk' = Append(Advance, [dir |-> Entry.id, idx |-> 1,
                                       listing |-> {}, phase |-> "list"])
    /\ UNCHANGED <<fileVars, fpc, result, progress, crashed, source, walked,
                   concurrentFiles, uwg, ftask, removed>>

\* upload.go:504: checkFileExistsInDirectory (463-470)
InListing(f) == f \in Top.listing

\* upload.go:530-538: a file the listing holds: os.Stat, AddExisting
WalkExisting ==
    /\ AtEntry("file")
    /\ InListing(Entry.id)
    /\ visited' = visited \cup {<<Top.dir, Top.idx>>}
    /\ \/ /\ walk' = Pop                             \* os.Stat failed: return err
          /\ walked' = [walked EXCEPT ![Top.dir] = "err"]
          /\ UNCHANGED progress
       \/ /\ walk' = Advance
          /\ progress' = AddExisting(fileSize[Entry.id])
          /\ UNCHANGED walked
    /\ UNCHANGED <<fileVars, fpc, result, crashed, source, concurrentFiles,
                   uwg, ftask, removed>>

\* The walker without the slot acquisition of 507
FileSlotAlways == TRUE

\* upload.go:507: u.concurrentFiles <- struct{}{} can proceed
FileSlotFree == concurrentFiles < numTransfers

\* upload.go:505-509: a file the listing lacks: u.wg.Add(1), take a slot of
\* the file pool, start the goroutine that calls UploadFile
WalkDispatch ==
    /\ AtEntry("file")
    /\ ~InListing(Entry.id)
    /\ FileSlotFree
    /\ visited' = visited \cup {<<Top.dir, Top.idx>>}
    /\ uwg' = uwg + 1
    /\ concurrentFiles' = concurrentFiles + 1
    /\ ftask' = Set(ftask, Entry.id, "run")
    /\ fpc' = Set(fpc, Entry.id, "open")
    /\ walk' = Advance
    /\ UNCHANGED <<fileVars, result, progress, crashed, source, walked,
                   removed>>

\* upload.go:487, 542: the loop is over, return nil
WalkReturn ==
    /\ Running
    /\ walk # <<>>
    /\ Top.phase = "loop"
    /\ Top.idx > Len(Entries(Top.dir))
    /\ walk' = Pop
    /\ walked' = [walked EXCEPT ![Top.dir] = "nil"]
    /\ UNCHANGED <<fileVars, fpc, result, progress, crashed, source, visited,
                   concurrentFiles, uwg, ftask, removed>>

\* The error of UploadFile ignored
FailedNever(f) == FALSE

\* upload.go:516: UploadFile returned an error
Failed(f) == result[f] \notin {"ok", "exists"}

\* upload.go:510-528: UploadFile has returned; on success the local file is
\* removed when deleteAfterUpload is set (os.Remove may fail); the deferred
\* slot release and u.wg.Done
FileTaskFinish(f) ==
    /\ Running
    /\ ftask[f] = "run"
    /\ fpc[f] = "done"
    /\ IF ~Failed(f) /\ deleteAfterUpload
       THEN \E ok \in BOOLEAN : removed' = Set(removed, f, ok)
       ELSE UNCHANGED removed
    /\ ftask' = Set(ftask, f, "done")
    /\ concurrentFiles' = concurrentFiles - 1
    /\ uwg' = uwg - 1
    /\ UNCHANGED <<fileVars, fpc, result, progress, crashed, source, walk,
                   walked, visited>>

\* A walk of directory 0: every file fits in one part.
WalkSizes == { [f \in Files |-> 1] }

WalkInit ==
    /\ partSize = ConfiguredPartSize
    /\ numWorkers = WalkWorkers
    /\ InitFile(WalkSizes, 0)

WalkNext ==
    \/ WalkCall
    \/ WalkList
    \/ WalkSubDir
    \/ WalkExisting
    \/ WalkDispatch
    \/ WalkReturn
    \/ \E f \in Files : FileTaskFinish(f)
    \/ \E f \in Files : UploadFileOpen(f)
    \/ \E f \in Files : AddBar(f)
    \/ \E f \in Files : CheckFileExists(f)
    \/ \E f \in Files : SessionResolve(f)
    \/ \E f \in Files : JoinerWait(f)
    \/ \E f \in Files : JoinerClose(f)
    \/ \E f \in Files : DispatchAdd(f)
    \/ \E f \in Files : DispatchGo(f)
    \/ \E f \in Files : \E p \in DOMAIN task[f] : PartTaskStart(f, p)
    \/ \E f \in Files : \E p \in DOMAIN task[f] : PartTaskPost(f, p)
    \/ \E f \in Files : \E p \in DOMAIN task[f] : PartTaskResponse(f, p)
    \/ \E f \in Files : DrainRecv(f)
    \/ \E f \in Files : DrainEnd(f)
    \/ \E f \in Files : ManifestCommit(f)
    \/ \E f \in Files : SessionDelete(f)

WalkSpec == WalkInit /\ [][WalkNext]_vars

\* A walk of directory 2: file 1 has two parts, file 2 one.
PoolSizes == { [f \in Files |-> IF f = 1 THEN ConfiguredPartSize + 1 ELSE 1] }

PoolInit ==
    /\ partSize = ConfiguredPartSize
    /\ numWorkers = WalkWorkers
    /\ InitFile(PoolSizes, 2)

\* Directory 2 has no subdirectory.
PoolNext ==
    \/ WalkCall
    \/ WalkList
    \/ WalkExisting
    \/ WalkDispatch
    \/ WalkReturn
    \/ \E f \in Files : FileTaskFinish(f)
    \/ \E f \in Files : UploadFileOpen(f)
    \/ \E f \in Files : AddBar(f)
    \/ \E f \in Files : CheckFileExists(f)
    \/ \E f \in Files : SessionResolve(f)
    \/ \E f \in Files : JoinerWait(f)
    \/ \E f \in Files : JoinerClose(f)
    \/ \E f \in Files : DispatchAdd(f)
    \/ \E f \in Files : DispatchGo(f)
    \/ \E f \in Files : \E p \in DOMAIN task[f] : PartTaskStart(f, p)
    \/ \E f \in Files : \E p \in DOMAIN task[f] : PartTaskPost(f, p)
    \/ \E f \in Files : \E p \in DOMAIN task[f] : PartTaskResponse(f, p)
    \/ \E f \in Files : DrainRecv(f)
    \/ \E f \in Files : DrainEnd(f)
    \/ \E f \in Files : ManifestCommit(f)
    \/ \E f \in Files : SessionDelete(f)

PoolSpec == PoolInit /\ [][PoolNext]_vars

\* ------------------------------------------------------------ list, 414-461
\* WalkList above is the call u.list(destDir) as one step with its outcome;
\* the actions below are the same call page by page.

\* upload.go:435: g.SetLimit(8)
ListLimit == 8

\* The goroutines of the errgroup that are running.
Fetching == { pg \in DOMAIN pages.g : pages.g[pg] = "run" }

\* upload.go:473-477, 414-433: os.ReadDir, then the request for page 1; its
\* response holds TotalPages and the names of the first page.
ListFirstPage ==
    /\ Running
    /\ walk # <<>>
    /\ Top.phase = "list"
    /\ \/ /\ walk' = Pop
          /\ walked' = [walked EXCEPT ![Top.dir] = "list_err"]
          /\ pages' = [NoPages EXCEPT !.pc = "failed"]
       \/ \E total \in 0..MaxPages, names \in SUBSET FilesOf(Top.dir) :
              /\ "ok" \in Responses
              /\ IF total > 1
                 THEN /\ pages' = [NoPages EXCEPT !.pc = "spawn", !.total = total,
                                                  !.files[1] = 1]
                      /\ walk' = SetTop([Top EXCEPT !.listing = names,
                                                    !.phase = "pages"])
                      /\ UNCHANGED walked
                 ELSE /\ pages' = [NoPages EXCEPT !.pc = "done", !.total = total,
                                                  !.files[1] = 1]
                      /\ walk' = SetTop([Top EXCEPT !.listing = names,
                                                    !.phase = "loop"])
                      /\ walked' = [walked EXCEPT ![Top.dir] = "listed"]
    /\ UNCHANGED <<partSize, numWorkers, cancelled, uploadFile, partName, bars,
                   barsSeen, fileSize, existingParts, i, wg, joiner,
                   uploadedParts, closed, concurrentWorkers, task, ranges,
                   parts, manifest, calls, fpc, result, progress, crashed,
                   source, visited, concurrentFiles, uwg, ftask, removed>>

\* upload.go:437-439: g.Go blocks while ListLimit goroutines are running,
\* then starts the goroutine for page i
ListGo ==
    /\ Running
    /\ pages.pc = "spawn"
    /\ pages.i <= pages.total
    /\ Cardinality(Fetching) < ListLimit
    /\ pages' = [pages EXCEPT !.g[pages.i] = "run", !.i = @ + 1]
    /\ UNCHANGED <<partSize, numWorkers, cancelled, uploadFile, partName, bars,
                   barsSeen, fileSize, existingParts, i, wg, joiner,
                   uploadedParts, closed, concurrentWorkers, task, ranges,
                   parts, manifest, calls, fpc, result, progress, crashed,
                   walkVars>>

\* upload.go:439-449: the goroutine of page pg: an error of the request is
\* returned to the group; otherwise the page's files are appended under mu
ListFetch(pg) ==
    /\ Running
    /\ pages.g[pg] = "run"
    /\ \/ /\ pages' = [pages EXCEPT !.g[pg] = "err"]
          /\ UNCHANGED walk
       \/ \E names \in SUBSET FilesOf(Top.dir) :
              /\ "ok" \in Responses
              /\ pages' = [pages EXCEPT !.g[pg] = "ok", !.files[pg] = @ + 1]
              /\ walk' = SetTop([Top EXCEPT !.listing = @ \cup names])
    /\ UNCHANGED <<partSize, numWorkers, cancelled, uploadFile, partName, bars,
                   barsSeen, fileSize, existingParts, i, wg, joiner,
                   uploadedParts, closed, concurrentWorkers, task, ranges,
                   parts, manifest, calls, fpc, result, progress, crashed,
                   source, walked, visited, concurrentFiles, uwg, ftask,
                   removed>>

\* The error of g.Wait ignored
ListFailedNever == FALSE

\* upload.go:451: g.Wait() returns the error of a goroutine
ListFailed == \E pg \in DOMAIN pages.g : pages.g[pg] = "err"

\* upload.go:451-457, 480-485: the loop is over and g.Wait() returns when no
\* goroutine runs; on an error list returns nil, err and the walker returns
ListWait ==
    /\ Running
    /\ pages.pc = "spawn"
    /\ pages.i > pages.total
    /\ Fetching = {}
    /\ IF ListFailed
       THEN /\ walk' = Pop
            /\ walked' = [walked EXCEPT ![Top.dir] = "list_err"]
            /\ pages' = [NoPages EXCEPT !.pc = "failed"]
       ELSE /\ walk' = SetTop([Top EXCEPT !.phase = "loop"])
            /\ walked' = [walked EXCEPT ![Top.dir] = "listed"]
            /\ pages' = [pages EXCEPT !.pc = "done", !.g = NoPages.g]
    /\ UNCHANGED <<partSize, numWorkers, cancelled, uploadFile, partName, bars,
                   barsSeen, fileSize, existingParts, i, wg, joiner,
                   uploadedParts, closed, concurrentWorkers, task, ranges,
                   parts, manifest, calls, fpc, result, progress, crashed,
                   source, visited, concurrentFiles, uwg, ftask, removed>>

\* A walk of directory 3 with its listings made page by page.
ListInit ==
    /\ partSize = ConfiguredPartSize
    /\ numWorkers = WalkWorkers
    /\ InitFile(WalkSizes, 3)

ListNext ==
    \/ WalkCall
    \/ ListFirstPage
    \/ ListGo
    \/ \E pg \in DOMAIN pages.g : ListFetch(pg)
    \/ ListWait
    \/ WalkSubDir
    \/ WalkExisting
    \/ WalkDispatch
    \/ WalkReturn
    \/ \E f \in Files : FileTaskFinish(f)
    \/ \E f \in Files : UploadFileOpen(f)
    \/ \E f \in Files : AddBar(f)
    \/ \E f \in Files : CheckFileExists(f)
    \/ \E f \in Files : SessionResolve(f)
    \/ \E f \in Files : JoinerWait(f)
    \/ \E f \in Files : JoinerClose(f)
    \/ \E f \in Files : DispatchAdd(f)
    \/ \E f \in Files : DispatchGo(f)
    \/ \E f \in Files : \E p \in DOMAIN task[f] : PartTaskStart(f, p)
    \/ \E f \in Files : \E p \in DOMAIN task[f] : PartTaskPost(f, p)
    \/ \E f \in Files : \E p \in DOMAIN task[f] : PartTaskResponse(f, p)
    \/ \E f \in Files : DrainRecv(f)
    \/ \E f \in Files : DrainEnd(f)
    \/ \E f \in Files : ManifestCommit(f)
    \/ \E f \in Files : SessionDelete(f)

ListSpec == ListInit /\ [][ListNext]_vars

\* -------------------------------------------- the part planner on its own
\* upload.go:193-196, 219-224: the dispatch loop's plan of file 1, without the
\* goroutines it starts, for every file size and part size.
PlanSizes ==
    { s \in [Files -> 0..MaxPlanSize] : \A f \in Files \ {SingleFile} : s[f] = 1 }

PlanPart ==
    /\ i[SingleFile] < totalParts(SingleFile)
    /\ ranges' = Set(ranges, SingleFile, Append(ranges[SingleFile],
                     <<PartStart(i[SingleFile], partSize),
                       PartEnd(i[SingleFile], fileSize[SingleFile], partSize)>>))
    /\ i' = Set(i, SingleFile, i[SingleFile] + 1)
    /\ UNCHANGED <<walkVars, pages, bars, barsSeen, cancelled, uploadFile, partName, partSize, numWorkers, fileSize, fpc, result,
                   existingParts, wg, joiner, uploadedParts, closed,
                   concurrentWorkers, task, parts, manifest, calls, progress,
                   crashed>>

PlanInit ==
    /\ partSize \in 1..MaxPlanSize
    /\ numWorkers = SingleWorkers
    /\ InitFile(PlanSizes, 0)

PlanNext == PlanPart

PlanSpec == PlanInit /\ [][PlanNext]_vars

\* ================================================================== claims
Planned(f) == 1..totalParts(f)

\* UploadFile has returned from a point after the existence check.
PastDrain(f) == result[f] \in {"incomplete", "commit_err", "delete_err", "ok"}

PartNos(s) == [k \in DOMAIN s |-> s[k].PartNo]

\* C1: a manifest commit (POST /api/files) is issued if and only if the
\* number of collected part records equals the planned part count; if any
\* part task failed no commit is ever issued and the run ends with the
\* "uploaded parts incomplete" error.
C1_CommitIffComplete ==
    \A f \in Files :
        /\ calls[f].commit > 0 =>
              /\ Len(parts[f]) = totalParts(f)
              /\ \A p \in Planned(f) : task[f][p] = "sent"
        /\ PastDrain(f) =>
              /\ calls[f].commit > 0 <=> Len(parts[f]) = totalParts(f)
              /\ result[f] = "incomplete" <=> Len(parts[f]) # totalParts(f)
        /\ (\E p \in Planned(f) : task[f][p] = "failed") =>
              /\ calls[f].commit = 0
              /\ fpc[f] = "done" => result[f] = "incomplete"

\* A part failed, another one delivered its record, the run ended incomplete.
C1_Witness ==
    /\ result[SingleFile] = "incomplete"
    /\ calls[SingleFile].commit = 0
    /\ \E p, q \in Planned(SingleFile) :
           /\ task[SingleFile][p] = "failed"
           /\ task[SingleFile][q] = "sent"
           /\ Len(parts[SingleFile]) = totalParts(SingleFile) - 1

\* C2: the results channel is closed only after every planned part's task
\* has been launched and has finished: no part task sends on a closed
\* channel, and the drain loop ends only after all tasks have completed.
C2_CloseAfterAllTasks ==
    \A f \in Files :
        /\ crashed # "panic"
        /\ closed[f] =>
              /\ i[f] = totalParts(f)
              /\ \A p \in Planned(f) : task[f][p] \in {"sent", "failed"}
        /\ PastDrain(f) =>
              \A p \in Planned(f) : task[f][p] \in {"sent", "failed"}

\* No part task failed and every planned part has an admissible record: the
\* session's for a resumed part, the one of a 201 response for the others.
AllPartsSucceeded(f) ==
    /\ PastDrain(f)
    /\ \A p \in Planned(f) :
           /\ task[f][p] # "failed"
           /\ IF p \in DOMAIN existingParts[f]
              THEN Admitted(existingParts[f][p])
              ELSE \E rec \in calls[f].created : rec.PartNo = p /\ Admitted(rec)

\* C3: with session records for the part numbers S, exactly the planned
\* parts outside S get a part POST (each once), the parts in S are reused
\* without a network call, and when all uploads succeed the committed
\* manifest lists every planned part number 1..N exactly once.
C3_ResumeCorrectness ==
    \A f \in Files :
        /\ calls[f].post \cap DOMAIN existingParts[f] = {}
        /\ calls[f].post \subseteq Planned(f)
        /\ calls[f].postN = Cardinality(calls[f].post)
        /\ (fpc[f] = "done" /\ DOMAIN existingParts[f] # {} /\ AllPartsSucceeded(f)) =>
              /\ calls[f].post = Planned(f) \ DOMAIN existingParts[f]
              /\ calls[f].commit > 0
              /\ PartNos(manifest[f]) = [k \in Planned(f) |-> k]

\* C4: whatever the order in which the part tasks push their records, the
\* parts list of the committed manifest is strictly ascending by part number.
C4_ManifestSorted ==
    \A f \in Files :
        calls[f].commit > 0 =>
            /\ manifest[f] # <<>>
            /\ \A k \in 1..(Len(manifest[f]) - 1) :
                   manifest[f][k].PartNo < manifest[f][k + 1].PartNo

\* A manifest was committed whose records, resumed and fresh, were collected
\* out of order.
C4_Witness ==
    /\ calls[SingleFile].commit > 0
    /\ \E k \in 1..(Len(parts[SingleFile]) - 1) :
           parts[SingleFile][k].PartNo > parts[SingleFile][k + 1].PartNo
    /\ DOMAIN existingParts[SingleFile] # {}
    /\ calls[SingleFile].post # {}

\* C7: when the existence check reports the file as found, UploadFile
\* returns success having issued no session lookup, part upload, manifest
\* commit or session delete, and the existing-bytes counter has grown by
\* the file's size and the existing-files count by one, once.
C7_ExistingFileSkipped ==
    /\ result[SingleFile] = "exists" =>
          /\ calls[SingleFile] = [NoCalls EXCEPT !.exists = 1]
          /\ fpc[SingleFile] = "done"
          /\ progress = [existing |-> 1, existingBytes |-> fileSize[SingleFile]]
    /\ result[SingleFile] # "exists" =>
          progress = [existing |-> 0, existingBytes |-> 0]

C7_Witness ==
    /\ result[SingleFile] = "exists"
    /\ fileSize[SingleFile] > partSize

\* The part tasks of file f in flight: started and not yet finished.
InFlight(f) ==
    Cardinality({ p \in DOMAIN task[f] : task[f][p] \in {"run", "named", "post"} })

RECURSIVE SumInFlight(_)
SumInFlight(F) ==
    IF F = {} THEN 0
    ELSE LET f == CHOOSE g \in F : TRUE IN InFlight(f) + SumInFlight(F \ {f})

\* C5 as stated: the part-level bound is shared by all in-flight files: the
\* part tasks in flight, summed over all files, never exceed numWorkers.
C5_SharedPartBound == SumInFlight(Files) <= numWorkers

\* C5 amended: the part-level bound is created by every UploadFile call for
\* itself: of one file at most numWorkers part tasks are in flight (and the
\* slots taken are the tasks in flight), the sum over the files is not bound
\* by numWorkers.
C5_PerFilePartBound ==
    \A f \in Files :
        /\ InFlight(f) <= numWorkers
        /\ crashed = "no" => concurrentWorkers[f] = InFlight(f)

\* File 1 has all its slots taken and its dispatch loop waits for one, while
\* a part of file 2 is in flight as well.
C5_Witness ==
    /\ InFlight(1) = numWorkers
    /\ fpc[1] = "acquire"
    /\ InFlight(2) > 0
    /\ SumInFlight(Files) > numWorkers

\* The files whose goroutine of 509-529 runs (UploadFile and what follows).
Uploading == { f \in Files : ftask[f] = "run" }

\* C6: during a directory walk with its recursive sub-walks at most
\* numTransfers UploadFile runs execute at a time: a run starts only in a
\* goroutine that holds a slot of the file pool, and the slot is given back
\* on every exit path.
C6_FilePoolBound ==
    /\ Cardinality(Uploading) <= numTransfers
    /\ concurrentFiles = Cardinality(Uploading)
    /\ uwg = Cardinality(Uploading)
    /\ \A f \in Files :
           /\ fpc[f] \notin {"idle", "done", "fatal"} => f \in Uploading
           /\ ftask[f] = "none" <=> fpc[f] = "idle"

\* The pool is full and the walker waits for a slot for the next file.
C6_Witness ==
    /\ Cardinality(Uploading) = numTransfers
    /\ walk # <<>>
    /\ Top.phase = "loop"
    /\ Top.idx <= Len(Entries(Top.dir))
    /\ Entry.kind = "file"
    /\ ~InListing(Entry.id)

\* The least n with n * psize >= size.
Ceil(size, psize) ==
    CHOOSE n \in 0..size : n * psize >= size /\ (n = 0 \/ (n - 1) * psize < size)

Min(a, b) == IF a < b THEN a ELSE b

\* C8: for fileSize >= 0 and partSize > 0 the dispatch loop plans
\* ceil(fileSize/partSize) parts; part k (0-based) covers
\* [k*partSize, min((k+1)*partSize, fileSize)): the ranges are non-empty,
\* contiguous, and their union is [0, fileSize).
C8_PlanCoversFile ==
    LET r == ranges[SingleFile]
        size == fileSize[SingleFile]
    IN  /\ \A k \in DOMAIN r :
               /\ r[k][1] = (k - 1) * partSize
               /\ r[k][2] = Min(k * partSize, size)
               /\ r[k][1] < r[k][2]
        /\ \A k \in 1..(Len(r) - 1) : r[k][2] = r[k + 1][1]
        /\ ~ENABLED PlanPart =>
               /\ Len(r) = Ceil(size, partSize)
               /\ size > 0 => r[1][1] = 0 /\ r[Len(r)][2] = size

\* A finished plan of several parts whose last part is shorter than partSize.
C8_Witness ==
    LET r == ranges[SingleFile]
    IN  /\ ~ENABLED PlanPart
        /\ Len(r) >= 3
        /\ r[Len(r)][2] - r[Len(r)][1] < partSize

\* C9: in a directory walk a failure confined to one entry (a file's upload,
\* a subdirectory's creation or walk, the stat of a file present remotely)
\* never keeps the later entries of that directory from being processed:
\* once the walk of a listed directory has returned, the loop has taken up
\* every entry of it.
C9_SiblingsStillVisited ==
    \A d \in Dirs :
        walked[d] \in {"nil", "err"} =>
            \A k \in DOMAIN Entries(d) : <<d, k>> \in visited

\* C10: a local I/O failure while opening or reading one source file in
\* UploadFile is contained to that file: it never terminates the process
\* nor stops the uploads of the other files.
C10_OpenFailureContained ==
    \A f \in Files : fpc[f] = "fatal" => crashed = "no"

\* C11: within one UploadFile run each planned part receives at most one
\* part POST: a part whose POST ended in a transport error or a status other
\* than 201 has no record, is not sent again, and makes the part-count check
\* fail (no commit, the run ends incomplete).
C11_SinglePostPerPart ==
    \A f \in Files :
        /\ calls[f].postN = Cardinality(calls[f].post)
        /\ \A p \in calls[f].post :
               /\ task[f][p] \in {"post", "sent", "failed", "panic"}
               /\ task[f][p] = "failed" =>
                      /\ \A rec \in calls[f].created : rec.PartNo # p
                      /\ \A k \in DOMAIN uploadedParts[f] :
                             uploadedParts[f][k].PartNo # p
                      /\ \A k \in DOMAIN parts[f] : parts[f][k].PartNo # p
                      /\ Len(parts[f]) < totalParts(f)
                      /\ calls[f].commit = 0
                      /\ fpc[f] = "done" => result[f] = "incomplete"

\* The POST of one part failed, the POST of another one returned its record,
\* and the run ended incomplete with one request per part.
C11_Witness ==
    /\ result[SingleFile] = "incomplete"
    /\ calls[SingleFile].postN >= 2
    /\ \E p, q \in calls[SingleFile].post :
           /\ task[SingleFile][p] = "failed"
           /\ task[SingleFile][q] = "sent"
           /\ \E rec \in calls[SingleFile].created : rec.PartNo = q

\* C12: the manifest of a file is sent once per UploadFile run: whatever the
\* outcomes of the commit call, at most one POST /api/files carrying the
\* file's manifest reaches the remote API.
C12_ManifestSentOnce == \A f \in Files : calls[f].commit <= 1

\* C13: once the service's cancellation token is cancelled, every part POST
\* still in progress is aborted: no part POST produces a part record (a 201
\* response delivered to the results channel) after the cancellation.
C13_CancelAbortsPartPosts ==
    [][\A f \in Files :
          cancelled => calls[f].created' = calls[f].created]_vars

\* C14: the remote upload session is deleted (DELETE /api/uploads/{id}) only
\* after the manifest commit of the same run has succeeded, never on the
\* AlreadyExists, Incomplete or commit-failed paths; and if that delete
\* fails, UploadFile returns an error although the manifest was committed.
C14_DeleteOnlyAfterCommit ==
    \A f \in Files :
        /\ (fpc[f] = "delete" \/ calls[f].delete > 0) => calls[f].commitOk
        /\ result[f] \in {"check_err", "exists", "incomplete", "commit_err"} =>
               calls[f].delete = 0
        /\ result[f] = "commit_err" => ~calls[f].commitOk
        /\ result[f] \in {"ok", "delete_err"} =>
               calls[f].commitOk /\ calls[f].delete = 1

\* The manifest was committed at the second attempt, the session delete then
\* failed and UploadFile returned its error.
C14_Witness ==
    /\ result[SingleFile] = "delete_err"
    /\ calls[SingleFile].commitOk
    /\ calls[SingleFile].commit = 2
    /\ calls[SingleFile].delete = 1

\* C15: for a resumed file (the session lookup returned at least one part
\* record) every fresh part POST's channelId and encrypted parameters and
\* the committed manifest's ChannelID and Encrypted equal those of the first
\* existing part record, whatever the configured defaults are; for a file
\* with no existing records they equal the configured defaults.
C15_ChannelInherited ==
    \A f \in Files :
        LET want == IF DOMAIN existingParts[f] # {}
                    THEN uploadFile[f][1]
                    ELSE [ChannelID |-> ConfiguredChannelID,
                          Encrypted |-> encryptFiles]
        IN  /\ DOMAIN existingParts[f] # {} <=> Len(uploadFile[f]) > 0
            /\ \A req \in calls[f].requests :
                   /\ req.channelId = want.ChannelID
                   /\ req.encrypted = want.Encrypted
            /\ \A pl \in calls[f].payloads :
                   /\ pl.ChannelID = want.ChannelID
                   /\ pl.Encrypted = want.Encrypted

\* A resumed file whose first session record differs from both configured
\* defaults: a fresh part was POSTed and the manifest committed with them.
C15_Witness ==
    /\ DOMAIN existingParts[SingleFile] # {}
    /\ uploadFile[SingleFile][1].ChannelID # ConfiguredChannelID
    /\ uploadFile[SingleFile][1].Encrypted # encryptFiles
    /\ calls[SingleFile].requests # {}
    /\ calls[SingleFile].payloads # {}
    /\ calls[SingleFile].commitOk

\* C16: with part-name randomisation disabled and more than one planned part,
\* the part POST for part number n carries the partName
\* "<fileName>.part.<n padded to 3 digits>" together with partNo = n, under
\* every interleaving of the part tasks: no request carries another part's
\* name.
C16_PartNameMatchesPartNo ==
    \A f \in Files :
        (~randomisePart /\ totalParts(f) > 1) =>
            \A req \in calls[f].requests :
                req.partName = [file |-> f,
                                suffix |-> <<"part">> \o Pad3(req.partNo)]

\* C17: the session lookup (GET /api/uploads/{id}) is issued only when
\* fileSize is strictly greater than partSize; and when the lookup fails the
\* run continues as a fresh upload: no part is taken from a session, every
\* part that delivers a record was POSTed, and a run that succeeds has
\* POSTed every planned part.
C17_LookupOnlyForMultiPart ==
    \A f \in Files :
        /\ calls[f].lookup > 0 => fileSize[f] > partSize
        /\ calls[f].lookup <= 1
        /\ calls[f].lookupErr =>
               /\ calls[f].lookup = 1
               /\ existingParts[f] = <<>>
               /\ fpc[f] \in {"dispatch", "acquire", "drain", "commit",
                               "delete", "done"}
               /\ result[f] \in {"none", "incomplete", "commit_err",
                                  "delete_err", "ok"}
               /\ \A p \in Planned(f) : task[f][p] = "sent" => p \in calls[f].post
               /\ result[f] = "ok" => calls[f].post = Planned(f)

\* The lookup of a three-part file failed and the run uploaded all three
\* parts and succeeded.
C17_Witness ==
    /\ calls[SingleFile].lookupErr
    /\ result[SingleFile] = "ok"
    /\ totalParts(SingleFile) = 3
    /\ calls[SingleFile].post = Planned(SingleFile)

\* C18: with delete-after-upload enabled the walker removes a local source
\* file only after that file's UploadFile run returned success, never after
\* a run that ended in an error and never for a file skipped because the
\* directory listing holds its name; a failed local delete ends the file's
\* goroutine like any other exit (its slot is given back) and touches no
\* other file.
C18_RemoveOnlyAfterSuccess ==
    /\ \A f \in Files :
           /\ removed[f] =>
                  /\ deleteAfterUpload
                  /\ ftask[f] = "done"
                  /\ fpc[f] = "done"
                  /\ result[f] \in {"ok", "exists"}
           /\ result[f] \in {"check_err", "incomplete", "commit_err", "delete_err"}
                  => ~removed[f]
           /\ ftask[f] = "none" => ~removed[f]
    /\ concurrentFiles = Cardinality({ f \in Files : ftask[f] = "run" })

\* One file was uploaded and removed, the upload of another one ended in an
\* error and left it in place, a third one was skipped for its name in the
\* listing and left in place.
C18_Witness ==
    \E f, g, h \in Files :
        /\ removed[f] /\ result[f] = "ok"
        /\ ftask[g] = "done" /\ result[g] = "delete_err" /\ ~removed[g]
        /\ ftask[h] = "none" /\ h \in FilesOf(0) /\ walked[0] = "nil"
        /\ ~removed[h]

\* C19: every update of the Progress object's shared state made by the
\* concurrent file tasks happens under the Progress mutex, so no update is
\* lost: the list of bars holds one bar for every file whose AddBar call has
\* returned.
C19_ProgressUpdatesProtected ==
    bars = Cardinality({ f \in Files :
                           fpc[f] \notin {"idle", "open", "addbar", "fatal"} })

\* C20: a successful directory listing holds the files of every page
\* 1..TotalPages exactly once (page 1 fetched first, the others by at most 8
\* concurrent fetchers); if any page fetch fails the listing as a whole
\* fails and the walker leaves that directory before it takes up any entry:
\* no upload dispatched, no subdirectory created.
C20_ListingComplete ==
    /\ Cardinality(Fetching) <= ListLimit
    /\ (\E pg \in DOMAIN pages.g : pages.g[pg] # "none") => pages.files[1] = 1
    /\ \A pg \in DOMAIN pages.files : pages.files[pg] <= 1
    /\ pages.pc = "done" =>
           \A pg \in DOMAIN pages.files :
               pages.files[pg] = IF pg = 1 \/ pg <= pages.total THEN 1 ELSE 0
    /\ pages.pc = "failed" => \E d \in Dirs : walked[d] = "list_err"
    /\ \A d \in Dirs :
           walked[d] = "list_err" =>
               /\ \A k \in DOMAIN Entries(d) : <<d, k>> \notin visited
               /\ \A f \in FilesOf(d) : ftask[f] = "none"

\* The listing of directory 3 succeeded with all its pages; in the listing
\* of its subdirectory 4 the fetch of one page has failed and eight other
\* fetchers run.
C20_Witness ==
    /\ walked[3] = "listed"
    /\ Len(walk) = 2
    /\ Top.dir = 4
    /\ Cardinality(Fetching) = ListLimit
    /\ ListFailed

\* The part tasks of file f that have sent their record.
Sent(f) == { p \in DOMAIN task[f] : task[f][p] = "sent" }

\* C21: the results channel sized to the planned part count never blocks a
\* sender: every part task pushes at most one record, so the records sent
\* for a file are at most totalParts, and whenever a part task is in flight
\* (holding its slot) the channel has room for its record.
C21_SendNeverBlocks ==
    \A f \in Files :
        /\ Len(uploadedParts[f]) + Len(parts[f]) <= Cardinality(Sent(f))
        /\ Cardinality(Sent(f)) <= totalParts(f)
        /\ InFlight(f) > 0 =>
               Len(uploadedParts[f]) + InFlight(f) <= Capacity(f)

\* The channel of a three-part file is full: all three tasks have sent and
\* the drain loop has not taken a record yet.
C21_Witness ==
    /\ totalParts(SingleFile) = 3
    /\ Len(uploadedParts[SingleFile]) = Capacity(SingleFile)
    /\ Cardinality(Sent(SingleFile)) = 3

\* C22: with every network call returning and fair scheduling, every
\* UploadFile run that has passed the existence check eventually terminates
\* with one of the outcomes incomplete, commit or cleanup error, or success.
C22_RunTerminates ==
    \A f \in Files :
        (fpc[f] = "resolve") ~>
            (fpc[f] = "done" /\ result[f] \in {"incomplete", "commit_err",
                                                "delete_err", "ok"})

\* The record part task p of file f has sent: the session's for a resumed
\* part, the one of its 201 response otherwise.
SentRecord(f, p) ==
    IF p \in DOMAIN existingParts[f] THEN existingParts[f][p]
    ELSE CHOOSE rec \in calls[f].created : rec.PartNo = p

\* C23: only part records with a non-zero remote part id and a non-zero size
\* are admitted to the manifest: a record sent with PartId = 0 or Size = 0,
\* reused from the session or returned with a 201, is discarded by the
\* collection, and the file ends incomplete without a commit.
C23_OnlySoundRecordsAdmitted ==
    \A f \in Files :
        /\ \A k \in DOMAIN parts[f] :
               \E p \in Sent(f) :
                   /\ SentRecord(f, p).PartNo = parts[f][k].PartNo
                   /\ SentRecord(f, p).PartId = parts[f][k].ID
                   /\ SentRecord(f, p).PartId # 0
                   /\ SentRecord(f, p).Size # 0
        /\ \A k \in DOMAIN manifest[f] : manifest[f][k].ID # 0
        /\ (\E p \in Sent(f) : SentRecord(f, p).PartId = 0 \/ SentRecord(f, p).Size = 0) =>
               /\ calls[f].commit = 0
               /\ fpc[f] \notin {"commit", "delete"}
               /\ fpc[f] = "done" => result[f] = "incomplete"

\* Every part task of a resumed file has sent its record; a reused one has
\* no remote part, a fresh one has no bytes; the file ended incomplete.
C23_Witness ==
    /\ result[SingleFile] = "incomplete"
    /\ Sent(SingleFile) = Planned(SingleFile)
    /\ \E p \in DOMAIN existingParts[SingleFile] \cap Planned(SingleFile) :
           SentRecord(SingleFile, p).PartId = 0
    /\ \E q \in calls[SingleFile].post :
           /\ SentRecord(SingleFile, q).Size = 0
           /\ SentRecord(SingleFile, q).PartId # 0

====
